---- MODULE Spec2Model ----
(***************************************************************************)
(* A model of EMC^2's Model classes (emc2/core/model.py) and of its        *)
(* SubcolumnDisplay (emc2/plotting/subcol_display.py), as one Python       *)
(* session: a model object is constructed, subcolumn data are generated,   *)
(* a display is made of it and its two plotting methods are called.  An    *)
(* uncaught exception ends the session.                                    *)
(*                                                                         *)
(* Python objects are records whose fields are the attributes the code     *)
(* assigns; reading an attribute that is no field is an AttributeError.    *)
(* A dict is the sequence of its <<key, value>> pairs in insertion order.  *)
(* Float literals of the parameter dictionaries are kept as their text.    *)
(* Coordinate values are exact rationals <<numerator, denominator>>.       *)
(***************************************************************************)
EXTENDS Integers, Sequences, FiniteSets, TLC

VARIABLES file, model, display, axes, ret, exc

vars == <<file, model, display, axes, ret, exc>>

(* ------------------------------ bounds ------------------------------- *)

\* Largest size of the 'lat' and of the 'lon' dimension of an input file.
MaxHoriz == 2
\* Largest size of the 'time' dimension of an input file.
MaxTimes == 2
\* Largest size of the 'plm' dimension of an input file.
MaxLevels == 2
\* Number of height levels of the test models (the code uses 1000).
NumHeights == 12
\* Largest number of subcolumns generated.
MaxSubcolumns == 2

(* ------------------------- program constants ------------------------- *)

\* np.linspace(0, 11000., 1000): the top of the test models' column.
HeightTop == 11000
\* heights > 1000.
ConvBase == 1000
\* The default number of bin edges, np.linspace(min, max, 50).
NumEdges == 50
\* 15.04 + 273.15, times 10^5.
TempSurfaceE5 == 28819000
\* 0.00649, times 10^5.
LapseE5 == 649
\* 273.15, times 10^5.
FreezeE5 == 27315000

(* ----------------------------- helpers -------------------------------- *)

None == [kind |-> "None"]

NoExc == [type |-> "none", at |-> "none"]

Raise(t, where) == [type |-> t, at |-> where]

\* dict.keys(), as a list: the keys in insertion order.
Keys(d) == [i \in 1..Len(d) |-> d[i][1]]

KeySet(d) == {d[i][1] : i \in 1..Len(d)}

\* d[k] for a key the dict holds.
Get(d, k) == d[CHOOSE i \in 1..Len(d) : d[i][1] = k][2]

\* Whether the Python object o has attribute a.
HasAttr(o, a) == a \in DOMAIN o

\* Exact rationals <<numerator, denominator>>, denominator > 0.
Rat(n) == <<n, 1>>

RLt(a, b) == a[1] * b[2] < b[1] * a[2]

RLe(a, b) == a[1] * b[2] <= b[1] * a[2]

REq(a, b) == a[1] * b[2] = b[1] * a[2]

\* np.linspace(lo, hi, num)[i - 1] for rationals lo, hi and 1 <= i <= num, num > 1.
linspace(lo, hi, num, i) ==
    IF lo[2] = hi[2]
      THEN << lo[1] * (num - 1) + (i - 1) * (hi[1] - lo[1]), lo[2] * (num - 1) >>
      ELSE << lo[1] * hi[2] * (num - 1) + (i - 1) * (hi[1] * lo[2] - lo[1] * hi[2]),
              lo[2] * hi[2] * (num - 1) >>

\* (a + b) / 2.0
midpoint(a, b) ==
    IF a[2] = b[2] THEN << a[1] + b[1], 2 * a[2] >>
    ELSE << a[1] * b[2] + b[1] * a[2], 2 * a[2] * b[2] >>

(* ------------------- the parameter dictionaries ---------------------- *)

Rho_hyd_dict == << <<"cl", "1000.">>, <<"ci", "5000.">>, <<"pl", "1000.">>, <<"pi", "250.">> >>

lidar_ratio_dict == << <<"cl", "18.">>, <<"ci", "24.">>, <<"pl", "5.5">>, <<"pi", "24.0">> >>

LDR_per_hyd_dict == << <<"cl", "0.03">>, <<"ci", "0.35">>, <<"pl", "0.1">>, <<"pi", "0.40">> >>

vel_param_a_dict == << <<"cl", "3e-7">>, <<"ci", "700.">>, <<"pl", "841.997">>, <<"pi", "11.72">> >>

vel_param_b_dict == << <<"cl", "2.">>, <<"ci", "1.">>, <<"pl", "0.8">>, <<"pi", "0.41">> >>

q_names_dict == << <<"cl", "qcl">>, <<"ci", "qci">>, <<"pl", "qpl">>, <<"pi", "qpi">> >>

N_field_dict == << <<"cl", "ncl">>, <<"ci", "nci">>, <<"pl", "npl">>, <<"pi", "npi">> >>

conv_frac_names_dict ==
    << <<"cl", "cldmccl">>, <<"ci", "cldmcci">>, <<"pl", "cldmcpl">>, <<"pi", "cldmcpi">> >>

strat_frac_names_dict ==
    << <<"cl", "cldsscl">>, <<"ci", "cldssci">>, <<"pl", "cldsspl">>, <<"pi", "cldsspi">> >>

(* ----------------------------- datasets ------------------------------- *)

\* The variable the simulator adds (the one the shipped example plots).
SubVar == "sub_col_Ze_col_strat"

BothAttrs == {"long_name", "units"}

NoData == <<>>

\* A float cell is <<v>>, or <<>> for NaN.
NaN == <<>>

DataValues == << <<0>>, <<3>>, NaN >>

\* The variables of a ModelE output file: every field ModelE names, on
\* (time, plm, lat, lon), and the four coordinates.
ModelEFileFields ==
    {"t", "q", "p_3d", "z"}
        \cup {q_names_dict[i][2] : i \in 1..4} \cup {N_field_dict[i][2] : i \in 1..4}
        \cup {conv_frac_names_dict[i][2] : i \in 1..4}
        \cup {strat_frac_names_dict[i][2] : i \in 1..4}

\* xr.open_dataset(file_path, decode_times=False) of a file with these dimension
\* sizes, whose variables carry the attributes attrs.
open_dataset(nlat, nlon, ntime, nlev, attrs) ==
    [kind   |-> "Dataset",
     dims   |-> [d \in {"lat", "lon", "time", "plm"} |->
                    CASE d = "lat" -> nlat [] d = "lon" -> nlon
                      [] d = "time" -> ntime [] OTHER -> nlev],
     vars   |-> [v \in ModelEFileFields \cup {"lat", "lon", "time", "plm"} |->
                    [dims  |-> IF v \in ModelEFileFields
                                 THEN <<"time", "plm", "lat", "lon">> ELSE <<v>>,
                     attrs |-> attrs]],
     levels |-> [k \in 1..nlev |-> Rat(100 * (nlev - k + 1))],
     times  |-> [t \in 1..ntime |-> t],
     z      |-> [c \in (1..ntime) \X (1..nlev) |-> Rat(1000 * c[2] + 100 * (c[1] - 1))],
     frac   |-> <<>>,
     data   |-> NoData]

DropDims(s, gone) == SelectSeq(s, LAMBDA d : d \notin gone)

\* A squeeze that drops the first of the named dimensions only.
MutSqueezeLat(ds, gone) ==
    [ds EXCEPT !.dims = [d \in (DOMAIN ds.dims) \ {"lat"} |-> ds.dims[d]],
               !.vars = [v \in DOMAIN ds.vars |->
                            [ds.vars[v] EXCEPT !.dims = DropDims(ds.vars[v].dims, {"lat"})]]]

\* Dataset.squeeze(dim=gone): the named dimensions, all of size 1, are removed
\* from the dataset and from every variable.
squeeze(ds, gone) ==
    [ds EXCEPT !.dims = [d \in (DOMAIN ds.dims) \ gone |-> ds.dims[d]],
               !.vars = [v \in DOMAIN ds.vars |->
                            [ds.vars[v] EXCEPT !.dims = DropDims(ds.vars[v].dims, gone)]]]

\* heights = np.linspace(0, 11000., 1000)
heights == [i \in 1..NumHeights |-> linspace(Rat(0), Rat(HeightTop), NumHeights, i)]

\* temp = 15.04 - 0.00649 * heights + 273.15, times 10^5.
temp(h) == << TempSurfaceE5 * h[2] - LapseE5 * h[1], h[2] >>

\* np.logical_and(heights > 1000., temp >= 273.15)
above_liquid(h) == RLt(Rat(ConvBase), h) /\ RLe(Rat(FreezeE5), temp(h))

\* np.logical_and(heights > 1000., temp < 273.15)
above_ice(h) == RLt(Rat(ConvBase), h) /\ RLt(temp(h), Rat(FreezeE5))

\* np.where(cond, 1, 0.)
where(cond) == IF cond THEN <<1, 1>> ELSE <<0, 1>>

\* np.zeros_like(heights)
zeros_like == [i \in 1..NumHeights |-> <<0, 1>>]

half(x) == <<x[1], 2 * x[2]>>

TestFields == {"p_3d", "q", "t", "qcl", "ncl", "qpl", "qci", "qpi"}

\* xr.Dataset({...}) of the test models; fracs are the cloud-fraction arrays.
TestDataset(fracs) ==
    [kind   |-> "Dataset",
     dims   |-> [d \in {"height", "time"} |-> IF d = "height" THEN NumHeights ELSE 1],
     vars   |-> [v \in TestFields \cup (DOMAIN fracs) \cup {"height", "time"} |->
                    [dims  |-> IF v \in {"height", "time"} THEN <<v>> ELSE <<"height", "time">>,
                     attrs |-> {}]],
     levels |-> heights,
     times  |-> <<0>>,
     z      |-> <<>>,
     frac   |-> fracs,
     data   |-> NoData]

FracNames == {"cldmccl", "cldmcci", "cldsscl", "cldssci"}

AllStratiformFracs ==
    [v \in FracNames |->
        CASE v = "cldsscl" -> [i \in 1..NumHeights |-> where(above_liquid(heights[i]))]
          [] v = "cldssci" -> [i \in 1..NumHeights |-> where(above_ice(heights[i]))]
          [] OTHER -> zeros_like]

HalfAndHalfFracs ==
    [v \in FracNames |->
        IF v \in {"cldsscl", "cldmccl"}
          THEN [i \in 1..NumHeights |-> half(where(above_liquid(heights[i])))]
          ELSE [i \in 1..NumHeights |-> half(where(above_ice(heights[i])))]]

(* --------------------------- model objects ---------------------------- *)

\* Model.__init__
BaseModel ==
    [class |-> "Model",
     Rho_hyd |-> <<>>, lidar_ratio |-> <<>>, LDR_per_hyd |-> <<>>,
     vel_param_a |-> <<>>, vel_param_b |-> <<>>,
     q_names_convective |-> <<>>, q_names_stratiform |-> <<>>,
     N_field |-> <<>>, T_field |-> "", q_field |-> "", p_field |-> "", z_field |-> "",
     qp_field |-> <<>>, conv_frac_names |-> <<>>, strat_frac_names |-> <<>>,
     ds |-> None, time_dim |-> "time", height_dim |-> "height"]

\* The attributes Model.__init__ assigns.
BaseAttrs == (DOMAIN BaseModel) \ {"class"}

\* The attributes ModelE.__init__ assigns, ds being the dataset it ends with.
ModelEObject(ds) ==
    [class |-> "ModelE",
     Rho_hyd |-> Rho_hyd_dict, lidar_ratio |-> lidar_ratio_dict,
     LDR_per_hyd |-> LDR_per_hyd_dict,
     vel_param_a |-> vel_param_a_dict, vel_param_b |-> vel_param_b_dict,
     q_names |-> q_names_dict, q_field |-> "q", N_field |-> N_field_dict,
     p_field |-> "p_3d", z_field |-> "z", T_field |-> "t",
     height_dim |-> "plm", time_dim |-> "time",
     conv_frac_names |-> conv_frac_names_dict,
     strat_frac_names |-> strat_frac_names_dict,
     ds |-> ds]

\* The attributes TestModel.__init__ assigns.
TestModelObject ==
    [class |-> "TestModel",
     Rho_hyd |-> Rho_hyd_dict, lidar_ratio |-> lidar_ratio_dict,
     LDR_per_hyd |-> LDR_per_hyd_dict,
     vel_param_a |-> vel_param_a_dict, vel_param_b |-> vel_param_b_dict,
     q_names_convective |-> q_names_dict, q_names_stratiform |-> q_names_dict,
     q_field |-> "q", N_field |-> N_field_dict,
     p_field |-> "p_3d", z_field |-> "height", T_field |-> "t",
     conv_frac_names |-> conv_frac_names_dict,
     strat_frac_names |-> strat_frac_names_dict,
     ds |-> TestDataset(<<>>)]

\* The attributes TestConvection, TestAllStratiform and TestHalfAndHalf assign.
TestFracObject(class, fracs) ==
    [class |-> class,
     Rho_hyd |-> Rho_hyd_dict, lidar_ratio |-> lidar_ratio_dict,
     LDR_per_hyd |-> LDR_per_hyd_dict,
     vel_param_a |-> vel_param_a_dict, vel_param_b |-> vel_param_b_dict,
     q_names_convective |-> q_names_dict, q_names_stratiform |-> q_names_dict,
     q_field |-> "q", N_field |-> N_field_dict,
     p_field |-> "p_3d", z_field |-> "height", T_field |-> "t",
     conv_frac_names |-> conv_frac_names_dict,
     strat_frac_names |-> strat_frac_names_dict,
     ds |-> TestDataset(fracs), height_dim |-> "height", time_dim |-> "time"]

\* The classes in reverse order.
MutReversedClasses(m) ==
    [i \in 1..Len(m.N_field) |-> m.N_field[Len(m.N_field) - i + 1][1]]

\* Model.hydrometeor_classes
hydrometeor_classes(m) == Keys(m.N_field)

\* Model.num_hydrometeor_classes
num_hydrometeor_classes(m) == Len(Keys(m.N_field))

\* Model.num_subcolumns
num_subcolumns(m) ==
    IF "subcolumn" \in DOMAIN m.ds.dims THEN m.ds.dims["subcolumn"] ELSE 0

(* ------------------------------ state --------------------------------- *)

NoFile == [state |-> "unopened", ds |-> None]

NoAxes == [drawn |-> <<>>, title |-> None, xlabel |-> None, ylabel |-> None,
           yinverted |-> FALSE, colorbar |-> None]

NoRet == [call |-> "none"]


Init ==
    /\ file = NoFile
    /\ model = None
    /\ display = None
    /\ axes = NoAxes
    /\ ret = NoRet
    /\ exc = NoExc

PlotCalls == {"plot_subcolumn_timeseries", "plot_vertical_frequency_dist"}

\* The session is a script of the shape of the shipped example: a model is
\* constructed, subcolumns are generated, a display is made and one plot is
\* drawn.  Nothing runs after an uncaught exception or after the plot.
Running == exc = NoExc /\ ret.call \notin PlotCalls

(* --------------------------- constructors ----------------------------- *)

\* my_model = Model()
ConstructModel ==
    /\ Running /\ model = None
    /\ model' = BaseModel
    /\ ret' = [call |-> "Model"]
    /\ UNCHANGED <<file, display, axes, exc>>

\* The check with 'and' in the place of 'or'.
MutNotScmBoth(ds) == ds.dims["lat"] # 1 /\ ds.dims["lon"] # 1

\* The single-column check of ModelE.__init__: true when the file is rejected.
not_scm(ds) == ds.dims["lat"] # 1 \/ ds.dims["lon"] # 1

\* What ModelE.__init__ does with a rejected dataset before raising.
reject(ds) == [state |-> "closed", ds |-> ds]

\* The dimensions ModelE.__init__ squeezes out.
SqueezedDims == {"lat", "lon"}

\* my_model = ModelE(file_path), the file holding a dataset of the given shape.
ConstructModelE ==
    /\ Running /\ model = None
    /\ \E nlat \in 1..MaxHoriz, nlon \in 1..MaxHoriz, ntime \in 1..MaxTimes,
          nlev \in 1..MaxLevels, attrs \in SUBSET BothAttrs :
          LET opened == open_dataset(nlat, nlon, ntime, nlev, attrs) IN
          IF not_scm(opened)
            THEN /\ file' = reject(opened)
                 /\ exc' = Raise("RuntimeError", "model.py:126")
                 /\ UNCHANGED model
            ELSE /\ file' = [state |-> "open", ds |-> opened]
                 /\ model' = ModelEObject(squeeze(opened, SqueezedDims))
                 /\ UNCHANGED exc
    /\ ret' = [call |-> "ModelE"]
    /\ UNCHANGED <<display, axes>>

\* np.linspace(0, 1, 1000.): a float count is accepted (with a deprecation
\* warning) by the numpy of the code's time and is a TypeError in later ones.
\* my_model = TestModel()
ConstructTestModel ==
    /\ Running /\ model = None
    /\ \E float_num_ok \in BOOLEAN :
          IF float_num_ok
            THEN model' = TestModelObject /\ UNCHANGED exc
            ELSE exc' = Raise("TypeError", "model.py:137") /\ UNCHANGED model
    /\ ret' = [call |-> "TestModel"]
    /\ UNCHANGED <<file, display, axes>>

\* my_model = TestConvection(): temp is read on line 182 and only assigned on
\* line 198, so the constructor never gets past line 182.
ConstructTestConvection ==
    /\ Running /\ model = None
    /\ \E float_num_ok \in BOOLEAN :
          exc' = IF float_num_ok THEN Raise("UnboundLocalError", "model.py:182")
                                 ELSE Raise("TypeError", "model.py:179")
    /\ ret' = [call |-> "TestConvection"]
    /\ UNCHANGED <<file, model, display, axes>>

\* my_model = TestAllStratiform()
ConstructTestAllStratiform ==
    /\ Running /\ model = None
    /\ \E float_num_ok \in BOOLEAN :
          IF float_num_ok
            THEN model' = TestFracObject("TestAllStratiform", AllStratiformFracs)
                 /\ UNCHANGED exc
            ELSE exc' = Raise("TypeError", "model.py:235") /\ UNCHANGED model
    /\ ret' = [call |-> "TestAllStratiform"]
    /\ UNCHANGED <<file, display, axes>>

\* my_model = TestHalfAndHalf()
ConstructTestHalfAndHalf ==
    /\ Running /\ model = None
    /\ \E float_num_ok \in BOOLEAN :
          IF float_num_ok
            THEN model' = TestFracObject("TestHalfAndHalf", HalfAndHalfFracs)
                 /\ UNCHANGED exc
            ELSE exc' = Raise("TypeError", "model.py:292") /\ UNCHANGED model
    /\ ret' = [call |-> "TestHalfAndHalf"]
    /\ UNCHANGED <<file, display, axes>>

(* ---------------------------- simulator ------------------------------- *)

\* The name of the height dimension of a dataset.
HeightDimOf(ds) == CHOOSE d \in DOMAIN ds.dims : d \notin {"time", "subcolumn", "lat", "lon"}

Cells(ds, nsub) == (1..nsub) \X (1..ds.dims["time"]) \X (1..ds.dims[HeightDimOf(ds)])

\* The generated fields: the cell values repeat over the three axes.
Patterns == {<<1, 0, 1>>, <<1, 1, 0>>, <<0, 1, 1>>, <<1, 1, 1>>}

PatternData(ds, nsub, p) ==
    [c \in Cells(ds, nsub) |-> DataValues[((p[1] * c[1] + p[2] * c[2] + p[3] * c[3]) % 3) + 1]]

\* my_model = emc2.simulator.main.make_simulated_data(my_model, instrument, nsub):
\* the dataset gains the 'subcolumn' dimension and a subcolumn field on
\* (subcolumn, time, height).
make_simulated_data ==
    /\ Running /\ model # None /\ model.ds # None /\ display = None
    /\ "subcolumn" \notin DOMAIN model.ds.dims
    /\ \E nsub \in 1..MaxSubcolumns, p \in Patterns :
          LET ds == model.ds
              newdims == [d \in (DOMAIN ds.dims) \cup {"subcolumn"} |->
                            IF d = "subcolumn" THEN nsub ELSE ds.dims[d]]
              newvars == [v \in (DOMAIN ds.vars) \cup {SubVar} |->
                            IF v = SubVar
                              THEN [dims  |-> <<"subcolumn", "time", HeightDimOf(ds)>>,
                                    attrs |-> BothAttrs]
                              ELSE ds.vars[v]]
          IN model' = [model EXCEPT !.ds = [ds EXCEPT !.dims = newdims,
                                                      !.vars = newvars,
                                                      !.data = PatternData(ds, nsub, p)]]
    /\ ret' = [call |-> "make_simulated_data"]
    /\ UNCHANGED <<file, display, axes, exc>>

(* ------------------------- SubcolumnDisplay --------------------------- *)

\* The keyword arguments SubcolumnDisplay.__init__ hands to Display.__init__:
\* ds_name=ds_name followed by what is left of kwargs.
parent_kwargs(ds_name, kwargs) ==
    << <<"ds_name", ds_name>> >> \o SelectSeq(kwargs, LAMBDA kv : kv[1] # "ds_name")

\* display = SubcolumnDisplay(model, **kwargs).  Display.__init__ keeps
\* {ds_name: dataset} in _arm when it is given a dataset, and sets no _arm
\* when it is given None.
ConstructDisplay ==
    /\ Running /\ model # None /\ display = None
    /\ \E kwargs \in {<<>>, << <<"ds_name", "scm">> >>} :
          /\ ret' = [call |-> "SubcolumnDisplay", args |-> kwargs]
          /\ IF "ds_name" \notin KeySet(kwargs) /\ ~HasAttr(model, "model_name")
               THEN /\ exc' = Raise("AttributeError", "subcol_display.py:42")
                    /\ UNCHANGED display
               ELSE LET ds_name == IF "ds_name" \notin KeySet(kwargs)
                                     THEN model.model_name ELSE Get(kwargs, "ds_name")
                        passed == parent_kwargs(ds_name, kwargs)
                    IN /\ display' =
                            IF model.ds = None
                              THEN [kind |-> "SubcolumnDisplay", model |-> model,
                                    passed |-> passed]
                              ELSE [kind |-> "SubcolumnDisplay", model |-> model,
                                    passed |-> passed,
                                    _arm |-> << <<Get(passed, "ds_name"), model.ds>> >>]
                       /\ UNCHANGED exc
    /\ UNCHANGED <<file, model, axes>>

(* --------------------- plot_subcolumn_timeseries ---------------------- *)

\* '%s [%s]' % (attrs["long_name"], attrs["units"]) of variable v.
AttrLabel(v) == [text |-> "long_name [units]", of |-> v]

NameLabel(v) == [text |-> "name", of |-> v]

\* The y-axis label of both plots.
y_label_of(ds, y_variable) ==
    IF BothAttrs \subseteq ds.vars[y_variable].attrs
      THEN AttrLabel(y_variable) ELSE NameLabel(y_variable)

\* The horizontal coordinate of plot_subcolumn_timeseries.
ts_x_variable(m) == m.time_dim

\* The two coordinates the wrong way round.
MutSwappedY(m, pressure_coords) ==
    IF pressure_coords THEN m.z_field ELSE m.height_dim

\* The vertical coordinate of plot_subcolumn_timeseries.
ts_y_variable(m, pressure_coords) ==
    IF pressure_coords THEN m.height_dim ELSE m.z_field

\* The 'subcolumn' coordinate of a dataset with subcolumns: 0 .. n - 1.
subcolumn_coord(ds) == [s \in 1..ds.dims["subcolumn"] |-> s - 1]

\* The data of my_ds = self._arm[ds_name].sel(subcolumn=column_no).
sel_subcolumn(ds, column_no) ==
    LET s == CHOOSE s \in DOMAIN subcolumn_coord(ds) : subcolumn_coord(ds)[s] = column_no
    IN [c \in (1..ds.dims["time"]) \X (1..ds.dims[HeightDimOf(ds)]) |->
           ds.data[<<s, c[1], c[2]>>]]

\* The positional arguments after variable: <<>> when column_no is not given.
Missing == <<>>

\* What stops plot_subcolumn_timeseries before it draws, NoExc if nothing does.
ts_failure(d, column_no, pressure_coords) ==
    LET m == d.model IN
    IF column_no = Missing THEN Raise("TypeError", "subcol_display.py:48")
    ELSE IF ~HasAttr(d, "_arm") THEN Raise("AttributeError", "subcol_display.py:74")
    ELSE IF "subcolumn" \notin DOMAIN d._arm[1][2].dims
      THEN Raise("ValueError", "subcol_display.py:75")
    ELSE IF \A s \in DOMAIN subcolumn_coord(d._arm[1][2]) :
               subcolumn_coord(d._arm[1][2])[s] # column_no[1]
      THEN Raise("KeyError", "subcol_display.py:75")
    ELSE IF ~HasAttr(m, "time_dim") THEN Raise("AttributeError", "subcol_display.py:76")
    ELSE IF pressure_coords /\ ~HasAttr(m, "height_dim")
      THEN Raise("AttributeError", "subcol_display.py:78")
    ELSE IF ts_y_variable(m, pressure_coords) \notin DOMAIN d._arm[1][2].vars
      THEN Raise("KeyError", "subcol_display.py:83")
    ELSE NoExc

\* display.plot_subcolumn_timeseries(variable[, column_no], pressure_coords=..., title=...)
plot_subcolumn_timeseries ==
    /\ Running /\ display # None
    /\ \E column_no \in {Missing} \cup {<<n>> : n \in 0..MaxSubcolumns}, pressure_coords \in BOOLEAN,
          title \in {None, [kind |-> "str", text |-> "my title"]} :
          LET failure == ts_failure(display, column_no, pressure_coords)
              args == [column_no |-> column_no, pressure_coords |-> pressure_coords,
                       title |-> title]
          IN
          IF failure # NoExc
            THEN exc' = failure /\ UNCHANGED axes
                 /\ ret' = [call |-> "plot_subcolumn_timeseries", args |-> args,
                            value |-> "raised"]
            ELSE LET m == display.model
                     ds == display._arm[1][2]
                     x_variable == ts_x_variable(m)
                     y_variable == ts_y_variable(m, pressure_coords)
                     mesh == [kind |-> "pcolormesh", x |-> x_variable, y |-> y_variable,
                              subcolumn |-> column_no[1],
                              c |-> sel_subcolumn(ds, column_no[1])]
                 IN IF title = None /\ ~HasAttr(m, "model_name")
                      THEN /\ exc' = Raise("AttributeError", "subcol_display.py:101")
                           /\ axes' = [axes EXCEPT !.drawn = <<mesh>>]
                           /\ ret' = [call |-> "plot_subcolumn_timeseries", args |-> args,
                                      value |-> "raised"]
                      ELSE /\ axes' = [drawn |-> <<mesh>>,
                                       title |-> IF title = None
                                                   THEN [kind |-> "str", text |-> m.model_name]
                                                   ELSE title,
                                       xlabel |-> [text |-> "Time [UTC]", of |-> x_variable],
                                       ylabel |-> y_label_of(ds, y_variable),
                                       yinverted |-> IF pressure_coords THEN ~axes.yinverted
                                                     ELSE axes.yinverted,
                                       colorbar |-> AttrLabel(SubVar)]
                           /\ ret' = [call |-> "plot_subcolumn_timeseries", args |-> args,
                                      value |-> "axes"]
                           /\ UNCHANGED exc
    /\ UNCHANGED <<file, model, display>>

(* -------------------- plot_vertical_frequency_dist -------------------- *)

RMin(S) == CHOOSE x \in S : \A y \in S : RLe(x, y)

RMax(S) == CHOOSE x \in S : \A y \in S : RLe(y, x)

\* Whether variable v of ds is the one-dimensional height coordinate.
IsHeightCoord(ds, v) == ds.vars[v].dims = <<HeightDimOf(ds)>>

\* The set of the values of self.model.ds[v].values, v a vertical variable.
ValuesOf(ds, v) ==
    IF IsHeightCoord(ds, v)
      THEN {ds.levels[k] : k \in DOMAIN ds.levels}
      ELSE {ds.z[c] : c \in DOMAIN ds.z}

\* bins = np.linspace(values.min(), values.max(), 50)
default_bins(ds, v) ==
    LET lo == RMin(ValuesOf(ds, v))
        hi == RMax(ValuesOf(ds, v))
    IN [i \in 1..NumEdges |-> linspace(lo, hi, NumEdges, i)]

\* The time steps .sel(time=slice(time[0], time[1])) keeps; all of them for None.
sel_time(ds, time) ==
    IF time = None THEN DOMAIN ds.times
    ELSE {t \in DOMAIN ds.times : time.start <= ds.times[t] /\ ds.times[t] <= time.stop}

\* values >= bins[i] and values < bins[i + 1]
in_bin(bins, i, v) == RLe(bins[i], v) /\ RLt(v, bins[i + 1])

\* The cells my_ds.values[:, :, height_inds] (pressure coordinates) or
\* my_ds.values[:, height_inds] (height coordinates) picks for bin i.
bin_cells(ds, time, pressure_coords, bins, i) ==
    {c \in DOMAIN ds.data :
        /\ c[2] \in sel_time(ds, time)
        /\ IF pressure_coords \/ ds.z = <<>>
             THEN in_bin(bins, i, ds.levels[c[3]])
             ELSE in_bin(bins, i, ds.z[<<c[2], c[3]>>])}

RECURSIVE Sorted(_, _)
\* The values f[c][1], c in S, in ascending order.
Sorted(S, f) ==
    IF S = {} THEN <<>>
    ELSE LET m == CHOOSE x \in S : \A y \in S : f[x][1] <= f[y][1]
         IN <<f[m][1]>> \o Sorted(S \ {m}, f)

\* np.nanpercentile(values, q) of the cells S of f, in hundredths: NaN cells
\* are dropped, the rest sorted, and the value at position q / 100 * (n - 1)
\* is interpolated linearly between its neighbours; NaN when nothing is left.
nanpercentile(S, f, q) ==
    LET V == {c \in S : f[c] # NaN}
        n == Cardinality(V)
        a == Sorted(V, f)
        lo == (q * (n - 1)) \div 100
        fr == (q * (n - 1)) % 100
        hi == IF lo + 1 < n THEN lo + 1 ELSE lo
    IN IF n = 0 THEN NaN
       ELSE << 100 * a[lo + 1] + fr * (a[hi + 1] - a[lo + 1]) >>

\* The percentile the middle column of the histogram holds.
MiddlePercentile == 50

\* One row of my_histogram.
hist_row(ds, time, pressure_coords, percentile_boundaries, bins, i) ==
    LET S == bin_cells(ds, time, pressure_coords, bins, i) IN
    << nanpercentile(S, ds.data, percentile_boundaries[1]),
       nanpercentile(S, ds.data, MiddlePercentile),
       nanpercentile(S, ds.data, percentile_boundaries[2]) >>

\* my_histogram after the loop: len(bins) - 1 rows.
histogram(ds, time, pressure_coords, percentile_boundaries, bins) ==
    [i \in 1..(Len(bins) - 1) |->
        hist_row(ds, time, pressure_coords, percentile_boundaries, bins, i)]

\* bin_mids = (bins[:-1] + bins[1:]) / 2.0
bin_mids(bins) ==
    [i \in 1..(Len(bins) - 1) |-> midpoint(bins[i], bins[i + 1])]

\* The vertical variable plot_vertical_frequency_dist starts with.
vfd_y_variable(m, pressure_coords) ==
    IF pressure_coords THEN m.height_dim ELSE m.z_field

\* What y_variable is bound to when the loop starts: the name, or the
\* DataArray line 166 replaces it by.
vfd_y_kind(time, pressure_coords) ==
    IF time # None /\ ~pressure_coords THEN "DataArray" ELSE "str"

\* What stops plot_vertical_frequency_dist before it draws, NoExc if nothing does.
vfd_failure(d, time, pressure_coords, bins) ==
    LET m == d.model
        ds == m.ds
    IN
    IF ~HasAttr(d, "_arm") THEN Raise("AttributeError", "subcol_display.py:150")
    ELSE IF pressure_coords /\ ~HasAttr(m, "height_dim")
      THEN Raise("AttributeError", "subcol_display.py:153")
    ELSE IF bins = None /\ vfd_y_variable(m, pressure_coords) \notin DOMAIN ds.vars
      THEN Raise("KeyError", "subcol_display.py:158")
    ELSE IF SubVar \notin DOMAIN ds.vars
      THEN Raise("KeyError", IF time = None THEN "subcol_display.py:162"
                                            ELSE "subcol_display.py:164")
    ELSE IF vfd_y_kind(time, pressure_coords) = "DataArray"
            /\ vfd_y_variable(m, pressure_coords) \notin DOMAIN ds.vars
      THEN Raise("KeyError", "subcol_display.py:166")
    ELSE IF vfd_y_kind(time, pressure_coords) = "DataArray"
            /\ \A j \in DOMAIN ds.vars[vfd_y_variable(m, pressure_coords)].dims :
                  ds.vars[vfd_y_variable(m, pressure_coords)].dims[j] # "time"
      THEN Raise("ValueError", "subcol_display.py:166")
    ELSE IF (IF bins = None THEN NumEdges ELSE Len(bins.edges)) > 1 /\ ~pressure_coords
            /\ vfd_y_kind(time, pressure_coords) = "str"
      THEN Raise("AttributeError", "subcol_display.py:176")
    ELSE NoExc

\* What stops it after it has drawn: self.model.ds[y_variable] on line 190
\* needs y_variable to be the name of a variable.
vfd_late_failure(d, time, pressure_coords) ==
    IF vfd_y_kind(time, pressure_coords) = "DataArray"
         \/ vfd_y_variable(d.model, pressure_coords) \notin DOMAIN d.model.ds.vars
      THEN Raise("KeyError", "subcol_display.py:190")
      ELSE NoExc

\* The bins a caller passes.
OneBin == << Rat(0), Rat(100000) >>

NoBin == << Rat(0) >>

TimeArgs(ds) ==
    {None} \cup {[kind |-> "tuple", start |-> ds.times[ab[1]], stop |-> ds.times[ab[2]]] :
                    ab \in {p \in (DOMAIN ds.times) \X (DOMAIN ds.times) : p[1] <= p[2]}}

\* display.plot_vertical_frequency_dist(variable, time=..., pressure_coords=...,
\*     title=..., percentile_boundaries=..., bins=...)
plot_vertical_frequency_dist ==
    /\ Running /\ display # None
    /\ \E pressure_coords \in BOOLEAN,
          title \in {None, [kind |-> "str", text |-> "my title"]},
          percentile_boundaries \in {<<5, 95>>, <<25, 75>>},
          given_bins \in {None} \cup {[kind |-> "array", edges |-> b] :
                                         b \in {OneBin, NoBin}},
          time \in IF display.model.ds = None THEN {None} ELSE TimeArgs(display.model.ds) :
          LET failure == vfd_failure(display, time, pressure_coords, given_bins)
              args == [time |-> time, pressure_coords |-> pressure_coords, title |-> title,
                       percentile_boundaries |-> percentile_boundaries,
                       bins |-> given_bins]
          IN
          IF failure # NoExc
            THEN exc' = failure /\ UNCHANGED axes
                 /\ ret' = [call |-> "plot_vertical_frequency_dist", args |-> args,
                            value |-> "raised"]
            ELSE LET m == display.model
                     ds == m.ds
                     y_variable == vfd_y_variable(m, pressure_coords)
                     bins == IF given_bins = None THEN default_bins(ds, y_variable)
                             ELSE given_bins.edges
                     late == vfd_late_failure(display, time, pressure_coords)
                     \* what lines 181-183 draw, my_histogram being h
                     band(h) == [kind |-> "fill_betweenx", y |-> bin_mids(bins),
                                 x1 |-> [i \in DOMAIN h |-> h[i][1]],
                                 x2 |-> [i \in DOMAIN h |-> h[i][3]]]
                     line(h) == [kind |-> "plot", y |-> bin_mids(bins),
                                 x |-> [i \in DOMAIN h |-> h[i][2]]]
                 IN /\ ret' = [call |-> "plot_vertical_frequency_dist", args |-> args,
                               value |-> IF late = NoExc THEN "axes" ELSE "raised",
                               bins |-> bins,
                               histogram |-> histogram(ds, time, pressure_coords,
                                                       percentile_boundaries, bins),
                               y_variable |-> y_variable]
                    /\ IF late # NoExc
                         THEN /\ exc' = late
                              /\ axes' = [axes EXCEPT
                                            !.drawn = <<band(ret'.histogram), line(ret'.histogram)>>,
                                            !.xlabel = AttrLabel(SubVar)]
                         ELSE /\ axes' = [axes EXCEPT
                                            !.drawn = <<band(ret'.histogram), line(ret'.histogram)>>,
                                            !.xlabel = AttrLabel(SubVar),
                                            !.ylabel = y_label_of(ds, y_variable),
                                            !.yinverted = IF pressure_coords THEN ~@ ELSE @,
                                            !.title = IF title = None
                                                        THEN [kind |-> "str",
                                                              parts |-> <<display._arm[1][1], " ", SubVar>>]
                                                        ELSE title]
                              /\ UNCHANGED exc
    /\ UNCHANGED <<file, model, display>>

(* --------------------------- specification ---------------------------- *)

Next ==
    \/ ConstructModel
    \/ ConstructModelE
    \/ ConstructTestModel
    \/ ConstructTestConvection
    \/ ConstructTestAllStratiform
    \/ ConstructTestHalfAndHalf
    \/ make_simulated_data
    \/ ConstructDisplay
    \/ plot_subcolumn_timeseries
    \/ plot_vertical_frequency_dist

Spec == Init /\ [][Next]_vars

(* ------------------------------ claims -------------------------------- *)

\* The state right after a ModelE(file_path) call.
AfterModelE == ret.call = "ModelE"

\* C1: ModelE(file_path) on a dataset whose 'lat' size is not 1 or whose
\* 'lon' size is not 1 ends in a RuntimeError raised after the opened dataset
\* has been closed, and no model is made; when both sizes are 1 nothing is
\* raised and the model is made.
C1_RejectsNonScm ==
    AfterModelE =>
        IF file.ds.dims["lat"] # 1 \/ file.ds.dims["lon"] # 1
          THEN /\ exc = Raise("RuntimeError", "model.py:126")
               /\ file.state = "closed"
               /\ model = None
          ELSE /\ exc = NoExc
               /\ model # None /\ model.class = "ModelE"

\* A file with lat of size 1 and lon of size 2 has been rejected.
C1_Witness ==
    /\ AfterModelE
    /\ file.ds.dims["lat"] = 1 /\ file.ds.dims["lon"] = 2
    /\ exc.type = "RuntimeError" /\ file.state = "closed"

\* C2: after a successful ModelE(file_path) the model's dataset has neither a
\* 'lat' nor a 'lon' dimension, on the dataset or on any variable, and every
\* other dimension of the opened file is kept with its size.
C2_SqueezedDims ==
    (AfterModelE /\ exc = NoExc) =>
        /\ DOMAIN model.ds.dims = (DOMAIN file.ds.dims) \ {"lat", "lon"}
        /\ \A d \in DOMAIN model.ds.dims : model.ds.dims[d] = file.ds.dims[d]
        /\ \A v \in DOMAIN model.ds.vars : \A j \in DOMAIN model.ds.vars[v].dims :
              model.ds.vars[v].dims[j] \notin {"lat", "lon"}

\* A file with two time steps and two levels has been loaded.
C2_Witness ==
    /\ AfterModelE /\ exc = NoExc
    /\ file.ds.dims["time"] = 2 /\ file.ds.dims["plm"] = 2
    /\ model.ds.dims["time"] = 2 /\ model.ds.dims["plm"] = 2
    /\ "lat" \in DOMAIN file.ds.dims /\ "lat" \notin DOMAIN model.ds.dims

\* C3: every constructed model of every class defines every attribute that
\* Model.__init__ defines.
C3_CommonSchema ==
    model # None => BaseAttrs \subseteq DOMAIN model

FourClasses == <<"cl", "ci", "pl", "pi">>

\* C4: hydrometeor_classes is the list of the keys of N_field in insertion
\* order and num_hydrometeor_classes is its length; they are cl, ci, pl, pi
\* and 4 for ModelE and the test models, and the empty list and 0 for Model().
C4_HydrometeorClasses ==
    model # None =>
        /\ Len(hydrometeor_classes(model)) = Len(model.N_field)
        /\ \A i \in 1..Len(model.N_field) :
              hydrometeor_classes(model)[i] = model.N_field[i][1]
        /\ num_hydrometeor_classes(model) = Len(hydrometeor_classes(model))
        /\ IF model.class = "Model"
             THEN hydrometeor_classes(model) = <<>> /\ num_hydrometeor_classes(model) = 0
             ELSE hydrometeor_classes(model) = FourClasses
                  /\ num_hydrometeor_classes(model) = Len(FourClasses)

\* A test model with its four classes has been constructed.
C4_Witness ==
    /\ model # None /\ model.class = "TestHalfAndHalf"
    /\ hydrometeor_classes(model) = FourClasses

RECURSIVE SumOf(_, _)
\* The sum of the values f[c][1], c in S.
SumOf(S, f) ==
    IF S = {} THEN 0
    ELSE LET x == CHOOSE x \in S : TRUE IN f[x][1] + SumOf(S \ {x}, f)

VfdCall == ret.call = "plot_vertical_frequency_dist"

TsCall == ret.call = "plot_subcolumn_timeseries"

\* A model with every attribute the plots read, with generated subcolumns.
SimulatedModelE ==
    /\ model # None /\ model.class = "ModelE"
    /\ SubVar \in DOMAIN model.ds.vars

\* C5: in the histogram plot_vertical_frequency_dist returns, the middle
\* column of each row is the mean of the non-NaN values of its bin (in
\* hundredths; NaN for a bin with none), columns 0 and 2 are their
\* percentile_boundaries[0] and [1] percentiles, the solid line is drawn from
\* the middle column and the band between columns 0 and 2.
C5_MiddleIsMean ==
    (VfdCall /\ ret.value = "axes") =>
        /\ \A i \in DOMAIN ret.histogram :
              LET S == bin_cells(model.ds, ret.args.time, ret.args.pressure_coords,
                                 ret.bins, i)
                  V == {c \in S : model.ds.data[c] # NaN}
                  row == ret.histogram[i]
              IN /\ IF V = {} THEN row[2] = NaN
                    ELSE /\ row[2] # NaN
                         /\ row[2][1] * Cardinality(V) = 100 * SumOf(V, model.ds.data)
                 /\ row[1] = nanpercentile(S, model.ds.data, ret.args.percentile_boundaries[1])
                 /\ row[3] = nanpercentile(S, model.ds.data, ret.args.percentile_boundaries[2])
        /\ axes.drawn[2].x = [i \in DOMAIN ret.histogram |-> ret.histogram[i][2]]
        /\ axes.drawn[1].x1 = [i \in DOMAIN ret.histogram |-> ret.histogram[i][1]]
        /\ axes.drawn[1].x2 = [i \in DOMAIN ret.histogram |-> ret.histogram[i][3]]

\* C6: on a model with generated subcolumns plot_vertical_frequency_dist
\* returns for every combination of pressure_coords and time, its histogram
\* has len(bins) - 1 rows of 3 columns, and with pressure_coords=False the
\* default bins span the values of z_field and the y label is z_field's.
C6_AllCombinationsComplete ==
    (VfdCall /\ SimulatedModelE) =>
        /\ exc = NoExc
        /\ ret.value = "axes"
        /\ Len(ret.histogram) = Len(ret.bins) - 1
        /\ \A i \in DOMAIN ret.histogram : Len(ret.histogram[i]) = 3
        /\ ~ret.args.pressure_coords =>
              /\ ret.y_variable = model.z_field
              /\ ret.args.bins = None => ret.bins = default_bins(model.ds, model.z_field)
              /\ axes.ylabel = y_label_of(model.ds, model.z_field)

C8_ColumnOptional ==
    (TsCall /\ SimulatedModelE /\ ret.args.column_no = Missing) =>
        /\ exc = NoExc
        /\ ret.value = "axes"
        /\ axes.drawn # <<>> /\ axes.drawn[1].kind = "pcolormesh"

\* C9: SubcolumnDisplay(model, **kwargs) succeeds for a model of any subclass
\* of Model; the dataset name is kwargs' ds_name when given and
\* model.model_name when not, it is passed to Display once, display.model is
\* the model and the displayed dataset is model.ds.
C9_DisplayConstructs ==
    (ret.call = "SubcolumnDisplay" /\ model.class # "Model") =>
        /\ exc = NoExc
        /\ display # None
        /\ display.model = model
        /\ Cardinality({i \in DOMAIN display.passed : display.passed[i][1] = "ds_name"}) = 1
        /\ Len(display._arm) = 1
        /\ display._arm[1][2] = model.ds
        /\ display._arm[1][1] = IF "ds_name" \in KeySet(ret.args)
                                  THEN Get(ret.args, "ds_name") ELSE model.model_name

\* C10: TestConvection() constructs a model in which, at every level above
\* 1000 m, exactly one of cldmccl (temperature >= 273.15 K) and cldmcci
\* (temperature < 273.15 K) is 1 and the other 0, both are 0 at the levels
\* up to 1000 m, and cldsscl and cldssci are 0 everywhere.
C10_ConvectionModel ==
    ret.call = "TestConvection" =>
        /\ exc = NoExc
        /\ model # None /\ model.class = "TestConvection"
        /\ \A i \in DOMAIN model.ds.levels :
              LET h == model.ds.levels[i]
                  f(v) == model.ds.frac[v][i]
                  warm == RLe(Rat(FreezeE5), temp(h))
                  One == <<1, 1>>
                  Zero == <<0, 1>>
              IN /\ RLt(Rat(ConvBase), h) =>
                       /\ REq(f("cldmccl"), IF warm THEN One ELSE Zero)
                       /\ REq(f("cldmcci"), IF warm THEN Zero ELSE One)
                 /\ RLe(h, Rat(ConvBase)) =>
                       REq(f("cldmccl"), Zero) /\ REq(f("cldmcci"), Zero)
                 /\ REq(f("cldsscl"), Zero) /\ REq(f("cldssci"), Zero)

\* The rows of the returned histogram whose bin holds vertical level k.
RowsOfLevel(k) ==
    {i \in DOMAIN ret.histogram : in_bin(ret.bins, i, model.ds.levels[k])}

\* C11: with the default bins (50 edges from the minimum to the maximum of
\* the vertical coordinate, 49 bins) plot_vertical_frequency_dist assigns
\* every vertical level of the model, the one at the maximum included, to
\* exactly one bin, so its data go to exactly one row of the histogram.
C11_BinningPartition ==
    (VfdCall /\ ret.value = "axes" /\ ret.args.bins = None /\ ret.args.pressure_coords) =>
        /\ Len(ret.bins) = NumEdges
        /\ Len(ret.histogram) = NumEdges - 1
        /\ \A k \in DOMAIN model.ds.levels :
              /\ Cardinality(RowsOfLevel(k)) = 1
              /\ \A c \in DOMAIN model.ds.data :
                    (c[3] = k /\ c[2] \in sel_time(model.ds, ret.args.time)) =>
                        Cardinality({i \in DOMAIN ret.histogram :
                            c \in bin_cells(model.ds, ret.args.time,
                                            ret.args.pressure_coords, ret.bins, i)}) = 1

\* The per-hydrometeor dictionaries of a test model.
PerHydrometeorDicts(m) ==
    {m.Rho_hyd, m.lidar_ratio, m.LDR_per_hyd, m.vel_param_a, m.vel_param_b,
     m.N_field, m.q_names_convective, m.q_names_stratiform,
     m.conv_frac_names, m.strat_frac_names}

\* The field names a test model refers to.
FieldNamesOf(m) ==
    {m.T_field, m.q_field, m.p_field, m.z_field}
        \cup UNION {{d[i][2] : i \in 1..Len(d)} :
                        d \in {m.N_field, m.q_names_convective, m.q_names_stratiform,
                               m.conv_frac_names, m.strat_frac_names}}

\* C12: in every model built by TestModel, TestAllStratiform or
\* TestHalfAndHalf the ten per-hydrometeor dictionaries all have the key set
\* {cl, ci, pl, pi}, and every field name that N_field, q_names_convective,
\* q_names_stratiform, conv_frac_names, strat_frac_names, T_field, q_field,
\* p_field and z_field give is a variable of the model's dataset ds.
C12_FieldNamesPresent ==
    (model # None /\ model.class \in {"TestModel", "TestAllStratiform", "TestHalfAndHalf"}) =>
        /\ \A d \in PerHydrometeorDicts(model) : KeySet(d) = {"cl", "ci", "pl", "pi"}
        /\ \A name \in FieldNamesOf(model) : name \in DOMAIN model.ds.vars

====
